---- MODULE Spec2Model ----
(***************************************************************************)
(* Tide Gauge firmware (src/src/main.cpp): the polling, data-derivation    *)
(* and actuation engine.                                                   *)
(*                                                                         *)
(* Units.  Levels are fixed-point hundredths of a foot (the float          *)
(* arithmetic of tideToDAC and of v - NOAA_MSL_FT agrees with the          *)
(* fixed-point arithmetic on that grid).  millis() is in milliseconds,     *)
(* time(nullptr) in seconds since the epoch.                               *)
(***************************************************************************)
EXTENDS Integers, Sequences, FiniteSets, TLC

VARIABLES
    pc,                \* "boot": globals constructed, setup() not yet run;
                       \* "loop": setup() returned, loop() is being dispatched;
                       \* "restart": ESP.restart() was called, this run is over
    ms,                \* millis() when the last handler returned
    synced,            \* whether the wall clock was set by NTP
    tideState,         \* TideState tideState
    weatherState,      \* WeatherState weatherState
    lastTideFetch,     \* unsigned long lastTideFetch
    lastWeatherFetch,  \* unsigned long lastWeatherFetch
    lastNeedleUpdate,  \* unsigned long lastNeedleUpdate
    dac,               \* the value last written by dacWrite(DAC_PIN, .)
    sweep,             \* the values bootSweep() wrote, in order
    ev,                \* what the last handler did (its inputs and branches)
    fired,             \* for each action, when its last firing started
    local,             \* loop()'s now and the assignments the running fetch
                       \* has still to make, when loop() is followed
                       \* statement by statement
    page,              \* what the last server.handleClient() call sent
    settled,           \* the two structs as the last complete action left them
    callIn,            \* argument of the last direct call of a pure helper
    callOut            \* result of that call

vars == << pc, ms, synced, tideState, weatherState, lastTideFetch,
           lastWeatherFetch, lastNeedleUpdate, dac, sweep, ev, fired,
           local, page, settled, callIn, callOut >>

(***************************************************************************)
(* Program constants                                                       *)
(***************************************************************************)
DAC_CENTER == 128
TIDE_SCALE_FT == 800
NOAA_MSL_FT == 835
TIDE_INTERVAL_MS == 360000
WEATHER_INTERVAL_MS == 900000
DISPLAY_INTERVAL_MS == 5000
\* configTime(-8 * 3600, ...): local time is UTC minus this many seconds
GMT_OFFSET_SEC == 28800

(***************************************************************************)
(* Bounds of the model                                                     *)
(***************************************************************************)
\* the day (days since the epoch) on which the device boots; a winter day,
\* so that local time is standard time
BootDay == 11675
\* loop() is dispatched while millis() is at most this
MaxMillis == 910000
\* longest prediction list, longest "data" array
MaxPreds == 3
MaxData == 2
\* tideToDAC is called directly on every delta within this many hundredths
MaxDelta == 900
\* millis() at which the responses of a direct fetchTide() call are in:
\* the clock then reads one minute past noon (or past boot, when it was
\* never set)
CallMillis == 60000
\* windDirection is called directly on every whole degree up to this
MaxDeg == 360
\* what millis() reads after each loop() of a run whose clock is kept
\* relative; no timer is followed further back than this
LiveOrigin == 1800000

BootEpoch == BootDay * 86400 + 12 * 3600

(***************************************************************************)
(* Arduino / libc helpers                                                  *)
(***************************************************************************)
\* constrain(x, lo, hi)
constrain(x, lo, hi) == IF x < lo THEN lo ELSE IF x > hi THEN hi ELSE x

\* C integer division and float-to-int conversion truncate toward zero
TruncDiv(a, b) == IF a >= 0 THEN a \div b ELSE -((-a) \div b)

\* an optional value: <<>> when the JSON member is missing, <<x>> otherwise
Missing == << >>
Some(x) == << x >>

(***************************************************************************)
(* DAC helpers                                                             *)
(***************************************************************************)
\* a mutant: the offset is scaled by 128 counts instead of 127
tideToDAC_scale128(deltaMSL) ==
    LET clamped == constrain(deltaMSL, -TIDE_SCALE_FT, TIDE_SCALE_FT)
        d == DAC_CENTER + TruncDiv(clamped * 128, TIDE_SCALE_FT)
    IN  constrain(d, 0, 255)

\* a mutant: neither the input nor the result is clamped, and the uint8_t
\* conversion of the result wraps
tideToDAC_wrap(deltaMSL) ==
    (DAC_CENTER + TruncDiv(deltaMSL * 127, TIDE_SCALE_FT)) % 256

\* uint8_t tideToDAC(float deltaMSL): normalized * 127.0f is
\* clamped * 127 / TIDE_SCALE_FT, and (int) truncates it toward zero
tideToDAC(deltaMSL) ==
    LET clamped == constrain(deltaMSL, -TIDE_SCALE_FT, TIDE_SCALE_FT)
        d == DAC_CENTER + TruncDiv(clamped * 127, TIDE_SCALE_FT)
    IN  constrain(d, 0, 255)

\* a mutant: the needle is driven from the level instead of the offset
NeedleRefresh_fromLevel(ts, old) ==
    IF ts.valid THEN tideToDAC(ts.currentFt) ELSE old

\* void setNeedle(uint8_t dacVal), called by the needle timer of loop():
\* if (tideState.valid) setNeedle(tideToDAC(tideState.deltaMSL)); old is
\* the value the pin keeps otherwise
NeedleRefresh(ts, old) == IF ts.valid THEN tideToDAC(ts.deltaMSL) ELSE old

\* bootSweep(), for (int i = 0; i <= 255; i += 3) setNeedle(i), from i on
RECURSIVE SweepUp(_)
SweepUp(i) == IF i <= 255 THEN << i >> \o SweepUp(i + 3) ELSE << >>

\* bootSweep(), for (int i = 255; i >= DAC_CENTER; i -= 3) setNeedle(i)
RECURSIVE SweepDown(_)
SweepDown(i) == IF i >= DAC_CENTER THEN << i >> \o SweepDown(i - 3) ELSE << >>

\* a mutant: the sweep does not return the needle to the centre
bootSweep_noCentre == << 0 >> \o SweepUp(0) \o SweepDown(255)

\* void bootSweep(): every value it hands to setNeedle(), in order
bootSweep == << 0 >> \o SweepUp(0) \o SweepDown(255) \o << DAC_CENTER >>

(***************************************************************************)
(* Time helpers                                                            *)
(***************************************************************************)
\* time(nullptr) when millis() = m: the epoch once NTP has set the clock,
\* otherwise the seconds since boot
Time(isSynced, m) == (IF isSynced THEN BootEpoch ELSE 0) + m \div 1000

\* String nowString(): localtime() as "HH:MM:SS", here << HH, MM, SS >>
nowString(t) ==
    LET s == (t - GMT_OFFSET_SEC) % 86400
    IN  << s \div 3600, (s % 3600) \div 60, s % 60 >>

\* String(text).toFloat(): 0.0 when the text is missing or is no number
toFloat(text) == IF text = Missing THEN 0 ELSE text[1]

\* The text of a prediction's "t" member is [day, hour, min], each part an
\* optional number: day stands for the "YYYY-MM-DD" part as days since the
\* epoch.  sscanf(t_str, "%4d-%2d-%2d %2d:%2d", ...) into a zeroed struct tm
\* stops at the first part it cannot convert and leaves the rest zero; its
\* return value is not looked at.
Sscanf(t) ==
    IF t.day = Missing
        THEN [dateSet |-> FALSE, day |-> 0, tm_hour |-> 0, tm_min |-> 0]
    ELSE IF t.hour = Missing
        THEN [dateSet |-> TRUE, day |-> t.day[1], tm_hour |-> 0, tm_min |-> 0]
    ELSE IF t.min = Missing
        THEN [dateSet |-> TRUE, day |-> t.day[1], tm_hour |-> t.hour[1],
              tm_min |-> 0]
    ELSE [dateSet |-> TRUE, day |-> t.day[1], tm_hour |-> t.hour[1],
          tm_min |-> t.min[1]]

\* time_t mktime(&ptm): the fields are read as LOCAL time, so the result is
\* the UTC reading of the fields plus GMT_OFFSET_SEC (tm_isdst is 0).  With
\* no date converted the fields are year 0 (tm_year = -1900, tm_mon = -1):
\* a time before the epoch, here -1.
mktime(ptm) ==
    IF ptm.dateSet
        THEN ptm.day * 86400 + ptm.tm_hour * 3600 + ptm.tm_min * 60
             + GMT_OFFSET_SEC
        ELSE -1

(***************************************************************************)
(* NOAA fetch                                                              *)
(***************************************************************************)
\* a mutant: a failed current-level request clears the reading
FetchLevel_clearOnFailure(ts, a) ==
    IF a.code = 200 /\ ~a.err /\ Len(a.data) > 0
        THEN LET v == toFloat(a.data[Len(a.data)])
             IN  [ts EXCEPT !.currentFt = v, !.deltaMSL = v - NOAA_MSL_FT,
                            !.valid = TRUE]
        ELSE [ts EXCEPT !.currentFt = 0, !.deltaMSL = 0, !.valid = FALSE]

\* a mutant: the reading is stored without the offset derived from it
FetchLevel_levelOnly(ts, a) ==
    IF a.code = 200 /\ ~a.err /\ Len(a.data) > 0
        THEN LET v == toFloat(a.data[Len(a.data)])
             IN  [ts EXCEPT !.currentFt = v, !.valid = TRUE]
        ELSE ts

\* fetchTide(), current water level: a is the response, [code, err, data]
\* with err the DeserializationError and data the "v" texts of doc["data"]
FetchLevel(ts, a) ==
    IF a.code = 200 /\ ~a.err /\ Len(a.data) > 0
        THEN LET v == toFloat(a.data[Len(a.data)])
             IN  [ts EXCEPT !.currentFt = v, !.deltaMSL = v - NOAA_MSL_FT,
                            !.valid = TRUE]
        ELSE ts

\* a mutant: every type code except "L" reads as a high tide
EventType_highUnlessL(type) == IF type = "L" THEN "Low" ELSE "High"

\* p["type"].as<String>() == "H" ? "High" : "Low"
EventType(type) == IF type = "H" THEN "High" ELSE "Low"

\* fetchTide(), the loop over doc2["predictions"], with now taken once
\* before the loop
RECURSIVE NextEventSearch(_, _, _)
NextEventSearch(ts, predictions, now) ==
    IF predictions = << >> THEN ts
    ELSE LET p == Head(predictions)
             ptm == Sscanf(p.t)
             pt == mktime(ptm)
         IN  IF pt > now
                 THEN [ts EXCEPT !.nextEventType = EventType(p.type),
                                 !.nextEventFt = toFloat(p.v),
                                 !.nextEventTime = << ptm.tm_hour, ptm.tm_min >>]
                 ELSE NextEventSearch(ts, Tail(predictions), now)

\* a mutant: the search runs on the first prediction response alone
FetchPredictions_firstOnly(ts, b1, b2, now) ==
    IF b1.code = 200 THEN NextEventSearch(ts, b1.predictions, now) ELSE ts

\* fetchTide(), next hi/lo prediction: b1 is the first GET (its document is
\* discarded), b2 the re-fetch whose body is parsed: [code, predictions]
FetchPredictions(ts, b1, b2, now) ==
    IF b1.code = 200 /\ b2.code = 200
        THEN NextEventSearch(ts, b2.predictions, now)
        ELSE ts

\* a mutant: the search compares with the clock read when fetchTide() is
\* entered
SearchClock_atIssue(issued, answered) == issued

\* fetchTide(), time_t now = time(nullptr): read after the body of the
\* re-fetch has arrived; issued and answered are millis() when fetchTide()
\* is entered and when its last response is in
SearchClock(issued, answered) == answered

\* void fetchTide(): in = [a, b1, b2]; now is time(nullptr) once the
\* responses are in (the search and nowString() read the clock then)
fetchTide(ts, in, now) ==
    [FetchPredictions(FetchLevel(ts, in.a), in.b1, in.b2, now)
        EXCEPT !.fetchedAt = nowString(now)]

(***************************************************************************)
(* Open-Meteo weather fetch                                                *)
(***************************************************************************)
\* String wmoDescription(int code): the label, and the code it embeds
wmoDescription(code) ==
    CASE code = 0 -> [label |-> "Clear sky", code |-> Missing]
      [] code = 1 -> [label |-> "Mainly clear", code |-> Missing]
      [] code = 2 -> [label |-> "Partly cloudy", code |-> Missing]
      [] code = 3 -> [label |-> "Overcast", code |-> Missing]
      [] code \in {45, 48} -> [label |-> "Fog", code |-> Missing]
      [] code \in {51, 53, 55} -> [label |-> "Drizzle", code |-> Missing]
      [] code \in {61, 63, 65} -> [label |-> "Rain", code |-> Missing]
      [] code \in {71, 73, 75} -> [label |-> "Snow", code |-> Missing]
      [] code \in {80, 81, 82} -> [label |-> "Showers", code |-> Missing]
      [] code = 95 -> [label |-> "Thunderstorm", code |-> Missing]
      [] OTHER -> [label |-> "Unknown", code |-> Some(code)]

\* the remainder of C's integer division: the sign of the dividend
CRem(a, b) == a - b * TruncDiv(a, b)

\* const char* dirs[] of windDirection()
dirs == << "N", "NE", "E", "SE", "S", "SW", "W", "NW" >>

\* a mutant: the half sector is not added before the division
windDirIndex_noOffset(deg) == CRem(TruncDiv(2 * deg, 90), 8)

\* windDirection(), int idx = (int)((deg + 22.5f) / 45.0f) % 8, for deg in
\* whole degrees: (deg + 22.5) / 45 is (2 deg + 45) / 90
windDirIndex(deg) == CRem(TruncDiv(2 * deg + 45, 90), 8)

\* String windDirection(float deg)
windDirection(deg) == dirs[windDirIndex(deg) + 1]

\* JsonVariant::as<float>() / as<int>(): 0 when the member is missing
asNumber(member) == IF member = Missing THEN 0 ELSE member[1]

\* a mutant: the stamp is written only after a successful fetch
fetchWeather_stampOnSuccess(ws, r, now) ==
    IF r.code = 200 /\ ~r.err
        THEN [ws EXCEPT !.tempF = asNumber(r.cur.temperature_2m),
                        !.windMph = asNumber(r.cur.windspeed_10m),
                        !.windDirDeg = asNumber(r.cur.winddirection_10m),
                        !.condition = wmoDescription(asNumber(r.cur.weathercode)),
                        !.valid = TRUE,
                        !.fetchedAt = nowString(now)]
        ELSE ws

\* void fetchWeather(): r is the response, [code, err, cur] with cur the
\* members of doc["current"] (all missing when the object is)
fetchWeather(ws, r, now) ==
    [(IF r.code = 200 /\ ~r.err
        THEN [ws EXCEPT !.tempF = asNumber(r.cur.temperature_2m),
                        !.windMph = asNumber(r.cur.windspeed_10m),
                        !.windDirDeg = asNumber(r.cur.winddirection_10m),
                        !.condition = wmoDescription(asNumber(r.cur.weathercode)),
                        !.valid = TRUE]
        ELSE ws)
        EXCEPT !.fetchedAt = nowString(now)]

(***************************************************************************)
(* Global state                                                            *)
(***************************************************************************)
\* struct TideState, its default member initialisers ("--" is << >> for
\* the two time texts)
TideState0 ==
    [currentFt |-> 0, deltaMSL |-> 0, nextEventType |-> "--",
     nextEventFt |-> 0, nextEventTime |-> << >>, fetchedAt |-> << >>,
     valid |-> FALSE]

\* struct WeatherState, its default member initialisers
WeatherState0 ==
    [tempF |-> 0, windMph |-> 0, windDirDeg |-> 0,
     condition |-> [label |-> "--", code |-> Missing],
     fetchedAt |-> << >>, valid |-> FALSE]

(***************************************************************************)
(* Responses of the two services, as the handlers see them                 *)
(***************************************************************************)
\* level texts: -8.00, 0.00 and +8.00 ft from MSL, and a text that is no
\* number
LevelTexts == {Some(35), Some(835), Some(1635), Missing}

RECURSIVE SeqsUpTo(_, _)
SeqsUpTo(S, n) ==
    IF n = 0 THEN {<< >>}
    ELSE LET shorter == SeqsUpTo(S, n - 1)
         IN  shorter \cup {Append(q, x) : q \in {r \in shorter : Len(r) = n - 1},
                                          x \in S}

HttpFail == [code |-> -1, err |-> FALSE, data |-> << >>]
LevelParseError == [code |-> 200, err |-> TRUE, data |-> << >>]
LevelOk(data) == [code |-> 200, err |-> FALSE, data |-> data]

\* every current-level response with at most n samples
LevelResponses(n) ==
    {HttpFail, LevelParseError} \cup {LevelOk(d) : d \in SeqsUpTo(LevelTexts, n)}

\* a prediction entry at hour:min of the boot day plus dayOff
Pred(dayOff, hour, min, type, v) ==
    [t |-> [day |-> Some(BootDay + dayOff), hour |-> Some(hour),
            min |-> Some(min)],
     type |-> type, v |-> Some(v)]

\* The device's clock reads 12:01:00 UTC of the boot day when the calls of
\* SpecFetch search (CallMillis).  Entries 8 h before that, 1 h before, at
\* that minute, 2 h, 3 h and 5 h after it; an entry whose time of day is no
\* number; an entry whose text holds no date at all.
PredSkewEdge == Pred(0, 4, 1, "H", 610)
PredPast == Pred(0, 11, 1, "H", 620)
PredNow == Pred(0, 12, 1, "L", 130)
PredPlus2 == Pred(0, 14, 1, "L", 140)
PredPlus3 == Pred(0, 15, 1, "X", 450)
PredPlus5 == Pred(0, 17, 1, "H", 660)
PredPartial ==
    [t |-> [day |-> Some(BootDay + 1), hour |-> Missing, min |-> Missing],
     type |-> "H", v |-> Some(670)]
PredGarbage ==
    [t |-> [day |-> Missing, hour |-> Missing, min |-> Missing],
     type |-> "L", v |-> Some(180)]

PredEntries ==
    {PredSkewEdge, PredPast, PredNow, PredPlus2, PredPlus3, PredPlus5,
     PredPartial, PredGarbage}

PredFail == [code |-> -1, predictions |-> << >>]
PredOk(list) == [code |-> 200, predictions |-> list]

TideIn(a, b1, b2) == [a |-> a, b1 |-> b1, b2 |-> b2]

WeatherCur(t, w, d, c) ==
    [temperature_2m |-> t, windspeed_10m |-> w, winddirection_10m |-> d,
     weathercode |-> c]
WeatherFail == [code |-> -1, err |-> FALSE,
                cur |-> WeatherCur(Missing, Missing, Missing, Missing)]
WeatherParseError == [code |-> 200, err |-> TRUE,
                      cur |-> WeatherCur(Missing, Missing, Missing, Missing)]
WeatherOk(cur) == [code |-> 200, err |-> FALSE, cur |-> cur]

(***************************************************************************)
(* The environment of one run: what the services answer and how long the   *)
(* handlers take                                                           *)
(***************************************************************************)
TideInputs ==
    {TideIn(a, b[1], b[2]) :
        a \in {HttpFail, LevelOk(<< Some(835) >>), LevelOk(<< Some(1635) >>),
               LevelOk(<< Missing >>)},
        b \in {<< PredFail, PredFail >>,
               << PredOk(<< >>), PredFail >>,
               << PredOk(<< >>), PredOk(<< >>) >>,
               << PredOk(<< >>), PredOk(<< PredPlus2 >>) >>,
               << PredOk(<< >>), PredOk(<< PredPlus5 >>) >>}}

WeatherInputs ==
    {WeatherFail, WeatherParseError,
     WeatherOk(WeatherCur(Some(52), Some(7), Some(350), Some(61))),
     WeatherOk(WeatherCur(Missing, Missing, Missing, Missing))}

\* milliseconds from reset to the end of bootSweep()
BootDurations == {5000}
\* milliseconds one fetchTide() or fetchWeather() blocks
FetchDurations == {2500}
\* milliseconds between the return of one loop() and the next one reading
\* millis(), server.handleClient() included
LoopDeltas == {2500, 5000}

NoInput == [none |-> TRUE]

\* the environment of the runs of Spec
RunEnv ==
    [deltas |-> LoopDeltas, requests |-> {"none", "/", "/404"},
     tideInputs |-> TideInputs, weatherInputs |-> WeatherInputs,
     durations |-> FetchDurations]

\* the environment of the runs that never end: loop() is dispatched every
\* DISPLAY_INTERVAL_MS, every fetch fails or every fetch succeeds
LiveEnv ==
    [deltas |-> {DISPLAY_INTERVAL_MS}, requests |-> {"none", "/"},
     tideInputs |-> {TideIn(HttpFail, PredFail, PredFail),
                     TideIn(LevelOk(<< Some(1635) >>), PredOk(<< >>),
                            PredOk(<< PredPlus5 >>))},
     weatherInputs |-> {WeatherFail,
                        WeatherOk(WeatherCur(Some(52), Some(7), Some(350),
                                             Some(61)))},
     durations |-> FetchDurations]

Ev0 ==
    [op |-> "init", now |-> 0, req |-> "none",
     tideFired |-> FALSE, tideIn |-> NoInput, tideAt |-> 0,
     wxFired |-> FALSE, wxIn |-> NoInput, wxAt |-> 0,
     needleFired |-> FALSE, needleAt |-> 0]

\* loop() is not running
NoLocals == [now |-> 0, writes |-> << >>]

\* no page was sent
NoPage == << >>

\* void handleRoot(): what the page shows, the two structs and the needle
\* value computed from tideState.deltaMSL
handleRoot(ts, ws) ==
    [tide |-> ts, weather |-> ws, dacVal |-> tideToDAC(ts.deltaMSL)]

\* server.handleClient() with request req pending ("none": no client):
\* "/" is routed to handleRoot(), every other path to handle404()
Served(req, ts, ws) == IF req = "/" THEN handleRoot(ts, ws) ELSE NoPage

\* no action has fired yet
Fired0 ==
    [tide |-> [at |-> 0, now |-> 0], wx |-> [at |-> 0, now |-> 0],
     needle |-> [at |-> 0, now |-> 0]]

(***************************************************************************)
(* Setup                                                                   *)
(***************************************************************************)
Init ==
    /\ pc = "boot"
    /\ ms = 0
    /\ synced = FALSE
    /\ tideState = TideState0
    /\ weatherState = WeatherState0
    /\ lastTideFetch = 0
    /\ lastWeatherFetch = 0
    /\ lastNeedleUpdate = 0
    /\ dac = 0
    /\ sweep = << >>
    /\ ev = Ev0
    /\ fired = Fired0
    /\ local = NoLocals
    /\ page = NoPage
    /\ settled = [tide |-> tideState, weather |-> weatherState]
    /\ callIn = << >>
    /\ callOut = << >>

\* setup() when wm.autoConnect() fails: the needle is centred, then
\* ESP.restart()
SetupNoWifi ==
    /\ pc = "boot"
    /\ \E b \in BootDurations : ms' = ms + b
    /\ dac' = DAC_CENTER
    /\ pc' = "restart"
    /\ ev' = [Ev0 EXCEPT !.op = "setup"]
    /\ UNCHANGED << synced, tideState, weatherState, lastTideFetch,
                    lastWeatherFetch, lastNeedleUpdate, sweep, fired,
                    local, page, settled, callIn, callOut >>

\* setup() when WiFi connects: NTP (set or timed out), bootSweep() ending
\* on DAC_CENTER, fetchTide(), fetchWeather(), setNeedle(tideToDAC(.)).
\* None of the three lastXxx timers is written.  The three actions start at
\* tideAt, wxAt and end.
SetupIn(env) ==
    /\ pc = "boot"
    /\ \E b \in BootDurations, dT \in env.durations, dW \in env.durations,
          ntp \in BOOLEAN, tin \in env.tideInputs, win \in env.weatherInputs :
          LET tideAt == ms + b
              wxAt == tideAt + dT
              end == wxAt + dW
              ts == fetchTide(tideState, tin, Time(ntp, wxAt))
              ws == fetchWeather(weatherState, win, Time(ntp, end))
          IN  /\ synced' = ntp
              /\ tideState' = ts
              /\ weatherState' = ws
              /\ sweep' = bootSweep
              /\ dac' = tideToDAC(ts.deltaMSL)
              /\ ms' = end
              /\ fired' = [tide |-> [at |-> tideAt, now |-> 0],
                           wx |-> [at |-> wxAt, now |-> 0],
                           needle |-> [at |-> end, now |-> 0]]
              /\ settled' = [tide |-> ts, weather |-> ws]
              /\ ev' = [Ev0 EXCEPT !.op = "setup", !.now = ms + b,
                                   !.tideFired = TRUE, !.tideIn = tin,
                                   !.tideAt = tideAt,
                                   !.wxFired = TRUE, !.wxIn = win,
                                   !.wxAt = wxAt,
                                   !.needleFired = TRUE, !.needleAt = end]
    /\ pc' = "loop"
    /\ UNCHANGED << lastTideFetch, lastWeatherFetch, lastNeedleUpdate,
                    local, page, callIn, callOut >>

Setup == SetupIn(RunEnv)

(***************************************************************************)
(* Loop                                                                    *)
(***************************************************************************)
\* a mutant: a timer is re-armed only when its fetch got an answer
Rearm_onSuccess(last, now, due, ok) == IF due /\ ok THEN now ELSE last

\* if (now - lastXxx >= INTERVAL) { lastXxx = now; ... }
Rearm(last, now, due, ok) == IF due THEN now ELSE last

\* a mutant: the timers compare with > instead of >=
Due_strict(now, last, interval) == now - last > interval

\* a mutant: a timer fires only at the exact millisecond
Due_exact(now, last, interval) == now - last = interval

\* now - lastXxx >= INTERVAL (unsigned; no wrap below 2^32 ms)
Due(now, last, interval) == now - last >= interval

\* loop() when server.handleClient() serves "/reset": handleReset() sends
\* its page, waits a second and calls ESP.restart(), which does not return
LoopReset ==
    /\ pc = "loop"
    /\ \E d \in LoopDeltas :
          /\ ms + d <= MaxMillis
          /\ ms' = ms + d + 1000
          /\ ev' = [Ev0 EXCEPT !.op = "reset", !.now = ms + d,
                               !.req = "/reset"]
    /\ pc' = "restart"
    /\ UNCHANGED << synced, tideState, weatherState, lastTideFetch,
                    lastWeatherFetch, lastNeedleUpdate, dac, sweep, fired,
                    local, page, settled, callIn, callOut >>

\* loop(): handleClient() (no request, "/" or an unknown path: none of
\* them writes the state), then the three timers against one reading of
\* millis(), each action run to its end before the next timer is looked at.
\* The code reads the timers only as now - lastXxx.  With rel, millis() is
\* kept relative: when loop() returns, the origin of the clock (wall clock
\* included) is moved so that millis() reads LiveOrigin, and a timer that
\* would then lie before the origin is held at 0.
Dispatch(rel, env) ==
    /\ pc = "loop"
    /\ \E d \in env.deltas, req \in env.requests :
        /\ rel \/ ms + d <= MaxMillis
        /\ LET now == ms + d
               tideDue == Due(now, lastTideFetch, TIDE_INTERVAL_MS)
               wxDue == Due(now, lastWeatherFetch, WEATHER_INTERVAL_MS)
               needleDue == Due(now, lastNeedleUpdate, DISPLAY_INTERVAL_MS)
           IN  \E tin \in (IF tideDue THEN env.tideInputs ELSE {NoInput}),
                  win \in (IF wxDue THEN env.weatherInputs ELSE {NoInput}),
                  dT \in (IF tideDue THEN env.durations ELSE {0}),
                  dW \in (IF wxDue THEN env.durations ELSE {0}) :
                  LET wxAt == now + dT
                      needleAt == wxAt + dW
                      ts == IF tideDue
                                THEN fetchTide(tideState, tin,
                                               Time(synced, wxAt))
                                ELSE tideState
                      ws == IF wxDue
                                THEN fetchWeather(weatherState, win,
                                                  Time(synced, needleAt))
                                ELSE weatherState
                      shift == IF rel THEN needleAt - LiveOrigin ELSE 0
                      At(t) == IF rel /\ t < shift THEN 0 ELSE t - shift
                  IN  /\ lastTideFetch' =
                            At(Rearm(lastTideFetch, now, tideDue,
                                     tideDue /\ tin.a.code = 200))
                      /\ tideState' = ts
                      /\ lastWeatherFetch' =
                            At(Rearm(lastWeatherFetch, now, wxDue,
                                     wxDue /\ win.code = 200))
                      /\ weatherState' = ws
                      /\ lastNeedleUpdate' =
                            At(Rearm(lastNeedleUpdate, now, needleDue, TRUE))
                      /\ dac' = IF needleDue THEN NeedleRefresh(ts, dac)
                                              ELSE dac
                      /\ ms' = At(needleAt)
                      /\ page' = Served(req, tideState, weatherState)
                      /\ settled' = [tide |-> ts, weather |-> ws]
                      /\ ev' = [op |-> "loop", now |-> At(now), req |-> req,
                                tideFired |-> tideDue, tideIn |-> tin,
                                tideAt |-> At(now),
                                wxFired |-> wxDue, wxIn |-> win,
                                wxAt |-> At(wxAt),
                                needleFired |-> needleDue,
                                needleAt |-> At(needleAt)]
                      /\ fired' =
                            [tide |-> IF tideDue
                                          THEN [at |-> At(now), now |-> At(now)]
                                          ELSE [at |-> At(fired.tide.at),
                                                now |-> At(fired.tide.now)],
                             wx |-> IF wxDue
                                        THEN [at |-> At(wxAt), now |-> At(now)]
                                        ELSE [at |-> At(fired.wx.at),
                                              now |-> At(fired.wx.now)],
                             needle |-> IF needleDue
                                            THEN [at |-> At(needleAt),
                                                  now |-> At(now)]
                                            ELSE [at |-> At(fired.needle.at),
                                                  now |-> At(fired.needle.now)]]
    /\ UNCHANGED << pc, synced, sweep, local, callIn, callOut >>

LoopDispatch == Dispatch(FALSE, RunEnv)

Next == SetupNoWifi \/ Setup \/ LoopReset \/ LoopDispatch

Spec == Init /\ [][Next]_vars

(***************************************************************************)
(* The runs in which WiFi connects and no reset is requested, followed     *)
(* without an end: the Arduino core calls loop() again whenever it has     *)
(* returned, and every fetch returns (the HTTP client times out)           *)
(***************************************************************************)
LiveSetup == SetupIn(LiveEnv)
LiveDispatch == Dispatch(TRUE, LiveEnv)
LiveNext == LiveSetup \/ LiveDispatch
SpecLive ==
    Init /\ [][LiveNext]_vars /\ WF_vars(LiveSetup) /\ WF_vars(LiveDispatch)

(***************************************************************************)
(* loop() followed statement by statement: every assignment that           *)
(* fetchTide() and fetchWeather() make to the two structs is a step of its *)
(* own, so that a reader placed between two of them would see the struct   *)
(* half written.  setup() is one step: it returns before server.begin()    *)
(* lets a request in.                                                      *)
(***************************************************************************)
\* a mutant: the server answers whenever a request comes in, also while an
\* action of loop() is under way
ServingPoints_everywhere ==
    {"loop", "tideTimer", "tideRun", "wxTimer", "wxRun", "needleTimer"}

\* where loop() is when server.handleClient() is called: at its top only
ServingPoints == {"loop"}

Write(field, value) == [field |-> field, value |-> value]
ApplyWrite(struct, w) == [struct EXCEPT ![w.field] = w.value]

\* the assignments of one fetchTide() call, in program order: the level
\* group when a sample came, the next-event group when the search reaches
\* an entry with pt > now, the stamp always
TideWrites(ts, in, now) ==
    LET done == fetchTide(ts, in, now)
        level == in.a.code = 200 /\ ~in.a.err /\ Len(in.a.data) > 0
        found == /\ in.b1.code = 200
                 /\ in.b2.code = 200
                 /\ \E i \in 1 .. Len(in.b2.predictions) :
                       mktime(Sscanf(in.b2.predictions[i].t)) > now
    IN  (IF level
             THEN << Write("currentFt", done.currentFt),
                     Write("deltaMSL", done.deltaMSL),
                     Write("valid", TRUE) >>
             ELSE << >>)
        \o (IF found
                THEN << Write("nextEventType", done.nextEventType),
                        Write("nextEventFt", done.nextEventFt),
                        Write("nextEventTime", done.nextEventTime) >>
                ELSE << >>)
        \o << Write("fetchedAt", done.fetchedAt) >>

\* the assignments of one fetchWeather() call, in program order
WeatherWrites(ws, r, now) ==
    LET done == fetchWeather(ws, r, now)
    IN  (IF r.code = 200 /\ ~r.err
             THEN << Write("tempF", done.tempF),
                     Write("windMph", done.windMph),
                     Write("windDirDeg", done.windDirDeg),
                     Write("condition", done.condition),
                     Write("valid", TRUE) >>
             ELSE << >>)
        \o << Write("fetchedAt", done.fetchedAt) >>

\* the environment of the runs followed statement by statement
StepEnv ==
    [deltas |-> LoopDeltas, requests |-> {"none", "/", "/404"},
     tideInputs |-> {TideIn(HttpFail, PredFail, PredFail),
                     TideIn(LevelOk(<< Some(835) >>), PredOk(<< >>),
                            PredOk(<< PredPlus2 >>)),
                     TideIn(LevelOk(<< Some(1635) >>), PredOk(<< >>),
                            PredOk(<< PredPlus5 >>))},
     weatherInputs |-> {WeatherFail,
                        WeatherOk(WeatherCur(Some(52), Some(7), Some(350),
                                             Some(61))),
                        WeatherOk(WeatherCur(Some(61), Some(12), Some(90),
                                             Some(3)))},
     durations |-> FetchDurations]

StepSetup == SetupIn(StepEnv)

\* server.handleClient(); at the top of loop() it is followed by
\* unsigned long now = millis()
StepHandleClient ==
    /\ pc \in ServingPoints
    /\ \E req \in StepEnv.requests :
          page' = Served(req, tideState, weatherState)
    /\ IF pc = "loop"
           THEN \E d \in StepEnv.deltas :
                   /\ ms + d <= MaxMillis
                   /\ ms' = ms + d
                   /\ local' = [now |-> ms + d, writes |-> << >>]
                   /\ pc' = "tideTimer"
           ELSE UNCHANGED << ms, local, pc >>
    /\ UNCHANGED << synced, tideState, weatherState, lastTideFetch,
                    lastWeatherFetch, lastNeedleUpdate, dac, sweep, ev, fired,
                    settled, callIn, callOut >>

\* if (now - lastTideFetch >= TIDE_INTERVAL_MS) { lastTideFetch = now;
\* fetchTide(): the requests are made and answered
StepTideTimer ==
    /\ pc = "tideTimer"
    /\ LET due == Due(local.now, lastTideFetch, TIDE_INTERVAL_MS)
       IN  /\ lastTideFetch' = Rearm(lastTideFetch, local.now, due, TRUE)
           /\ IF due
                  THEN \E tin \in StepEnv.tideInputs,
                          dT \in StepEnv.durations :
                          /\ ms' = ms + dT
                          /\ local' =
                                [local EXCEPT !.writes =
                                    TideWrites(tideState, tin,
                                               Time(synced, ms + dT))]
                          /\ pc' = "tideRun"
                  ELSE /\ pc' = "wxTimer"
                       /\ UNCHANGED << ms, local >>
    /\ UNCHANGED << synced, tideState, weatherState, lastWeatherFetch,
                    lastNeedleUpdate, dac, sweep, ev, fired, page, settled,
                    callIn, callOut >>

\* fetchTide(): its next assignment to tideState; after the last one it
\* returns
StepTideWrite ==
    /\ pc = "tideRun"
    /\ tideState' = ApplyWrite(tideState, Head(local.writes))
    /\ local' = [local EXCEPT !.writes = Tail(local.writes)]
    /\ IF Tail(local.writes) = << >>
           THEN /\ pc' = "wxTimer"
                /\ settled' = [settled EXCEPT !.tide = tideState']
           ELSE UNCHANGED << pc, settled >>
    /\ UNCHANGED << ms, synced, weatherState, lastTideFetch, lastWeatherFetch,
                    lastNeedleUpdate, dac, sweep, ev, fired, page,
                    callIn, callOut >>

\* if (now - lastWeatherFetch >= WEATHER_INTERVAL_MS) { lastWeatherFetch =
\* now; fetchWeather(): the request is made and answered
StepWeatherTimer ==
    /\ pc = "wxTimer"
    /\ LET due == Due(local.now, lastWeatherFetch, WEATHER_INTERVAL_MS)
       IN  /\ lastWeatherFetch' = Rearm(lastWeatherFetch, local.now, due, TRUE)
           /\ IF due
                  THEN \E win \in StepEnv.weatherInputs,
                          dW \in StepEnv.durations :
                          /\ ms' = ms + dW
                          /\ local' =
                                [local EXCEPT !.writes =
                                    WeatherWrites(weatherState, win,
                                                  Time(synced, ms + dW))]
                          /\ pc' = "wxRun"
                  ELSE /\ pc' = "needleTimer"
                       /\ UNCHANGED << ms, local >>
    /\ UNCHANGED << synced, tideState, weatherState, lastTideFetch,
                    lastNeedleUpdate, dac, sweep, ev, fired, page, settled,
                    callIn, callOut >>

\* fetchWeather(): its next assignment to weatherState
StepWeatherWrite ==
    /\ pc = "wxRun"
    /\ weatherState' = ApplyWrite(weatherState, Head(local.writes))
    /\ local' = [local EXCEPT !.writes = Tail(local.writes)]
    /\ IF Tail(local.writes) = << >>
           THEN /\ pc' = "needleTimer"
                /\ settled' = [settled EXCEPT !.weather = weatherState']
           ELSE UNCHANGED << pc, settled >>
    /\ UNCHANGED << ms, synced, tideState, lastTideFetch, lastWeatherFetch,
                    lastNeedleUpdate, dac, sweep, ev, fired, page,
                    callIn, callOut >>

\* if (now - lastNeedleUpdate >= DISPLAY_INTERVAL_MS) { lastNeedleUpdate =
\* now; if (tideState.valid) setNeedle(.) }, and loop() returns
StepNeedleTimer ==
    /\ pc = "needleTimer"
    /\ LET due == Due(local.now, lastNeedleUpdate, DISPLAY_INTERVAL_MS)
       IN  /\ lastNeedleUpdate' = Rearm(lastNeedleUpdate, local.now, due, TRUE)
           /\ dac' = IF due THEN NeedleRefresh(tideState, dac) ELSE dac
    /\ local' = NoLocals
    /\ pc' = "loop"
    /\ UNCHANGED << ms, synced, tideState, weatherState, lastTideFetch,
                    lastWeatherFetch, sweep, ev, fired, page, settled,
                    callIn, callOut >>

StepNext ==
    \/ StepSetup
    \/ StepHandleClient
    \/ StepTideTimer
    \/ StepTideWrite
    \/ StepWeatherTimer
    \/ StepWeatherWrite
    \/ StepNeedleTimer

SpecSteps == Init /\ [][StepNext]_vars

(***************************************************************************)
(* tideToDAC called directly on every input of a grid                      *)
(***************************************************************************)
InitDAC ==
    /\ pc = "callDAC"
    /\ callIn \in -MaxDelta .. MaxDelta
    /\ callOut = << >>
    /\ ms = 0
    /\ synced = FALSE
    /\ tideState = TideState0
    /\ weatherState = WeatherState0
    /\ lastTideFetch = 0
    /\ lastWeatherFetch = 0
    /\ lastNeedleUpdate = 0
    /\ dac = 0
    /\ sweep = << >>
    /\ ev = Ev0
    /\ fired = Fired0
    /\ local = NoLocals
    /\ page = NoPage
    /\ settled = [tide |-> tideState, weather |-> weatherState]

CallTideToDAC ==
    /\ pc = "callDAC"
    /\ callOut' = tideToDAC(callIn)
    /\ pc' = "doneDAC"
    /\ UNCHANGED << ms, synced, tideState, weatherState, lastTideFetch,
                    lastWeatherFetch, lastNeedleUpdate, dac, sweep, ev, fired,
                    local, page, settled, callIn >>

SpecDAC == InitDAC /\ [][CallTideToDAC]_vars

(***************************************************************************)
(* windDirection called directly on every whole degree of the circle       *)
(***************************************************************************)
InitWind ==
    /\ pc = "callWind"
    /\ callIn \in 0 .. MaxDeg
    /\ callOut = << >>
    /\ ms = 0
    /\ synced = FALSE
    /\ tideState = TideState0
    /\ weatherState = WeatherState0
    /\ lastTideFetch = 0
    /\ lastWeatherFetch = 0
    /\ lastNeedleUpdate = 0
    /\ dac = 0
    /\ sweep = << >>
    /\ ev = Ev0
    /\ fired = Fired0
    /\ local = NoLocals
    /\ page = NoPage
    /\ settled = [tide |-> tideState, weather |-> weatherState]

CallWindDirection ==
    /\ pc = "callWind"
    /\ callOut' = [idx |-> windDirIndex(callIn), text |-> windDirection(callIn)]
    /\ pc' = "doneWind"
    /\ UNCHANGED << ms, synced, tideState, weatherState, lastTideFetch,
                    lastWeatherFetch, lastNeedleUpdate, dac, sweep, ev, fired,
                    local, page, settled, callIn >>

SpecWind == InitWind /\ [][CallWindDirection]_vars

(***************************************************************************)
(* fetchTide() called once on a state that earlier fetches left, with      *)
(* every response of a bounded set                                         *)
(***************************************************************************)
\* the prediction an earlier cycle stored, and the states earlier cycles
\* can have left: nothing fetched; only a level; only a next event; both
PriorPred == Pred(0, 13, 31, "L", 90)
PriorTideStates ==
    {fetchTide(TideState0, TideIn(a, PredOk(<< >>), b2), Time(TRUE, 0)) :
        a \in {HttpFail, LevelOk(<< Some(1200) >>)},
        b2 \in {PredFail, PredOk(<< PriorPred >>)}}
    \cup {TideState0}

PredLists == SeqsUpTo(PredEntries, MaxPreds)

\* every level response with a few prediction responses, and a few level
\* responses with every prediction response
FetchCalls ==
    {TideIn(a, b[1], b[2]) :
        a \in LevelResponses(MaxData),
        b \in {<< PredFail, PredFail >>,
               << PredOk(<< >>), PredOk(<< PredPlus2 >>) >>}}
    \cup
    {TideIn(a, PredOk(<< >>), b2) :
        a \in {HttpFail, LevelOk(<< Some(835) >>)},
        b2 \in {PredFail} \cup {PredOk(l) : l \in PredLists}}
    \cup
    {TideIn(a, PredFail, PredFail) :
        a \in {HttpFail, LevelOk(<< Some(835) >>)}}
    \cup
    \* a first GET with a body of its own; after a failed first GET, b2 is
    \* what the re-fetch would have got had it been made
    {TideIn(a, b1, b2) :
        a \in {HttpFail, LevelOk(<< Some(835) >>)},
        b1 \in {PredFail, PredOk(<< PredPlus5 >>)},
        b2 \in {PredFail, PredOk(<< PredPlus2 >>),
                PredOk(<< PredSkewEdge, PredPlus2 >>)}}

InitFetch ==
    /\ pc = "callFetch"
    /\ synced \in BOOLEAN
    /\ \E d \in FetchDurations : ms = CallMillis - d
    /\ tideState \in PriorTideStates
    /\ \E in \in FetchCalls : callIn = [ts |-> tideState, in |-> in]
    /\ callOut = << >>
    /\ weatherState = WeatherState0
    /\ lastTideFetch = 0
    /\ lastWeatherFetch = 0
    /\ lastNeedleUpdate = 0
    /\ dac = 0
    /\ sweep = << >>
    /\ ev = Ev0
    /\ fired = Fired0
    /\ local = NoLocals
    /\ page = NoPage
    /\ settled = [tide |-> tideState, weather |-> weatherState]

CallFetchTide ==
    /\ pc = "callFetch"
    /\ \E d \in FetchDurations : ms' = ms + d
    /\ tideState' = fetchTide(tideState, callIn.in,
                              Time(synced, SearchClock(ms, ms')))
    /\ callOut' = tideState'
    /\ pc' = "doneFetch"
    /\ settled' = [settled EXCEPT !.tide = tideState']
    /\ UNCHANGED << synced, weatherState, lastTideFetch,
                    lastWeatherFetch, lastNeedleUpdate, dac, sweep, ev, fired,
                    local, page, callIn >>

SpecFetch == InitFetch /\ [][CallFetchTide]_vars

(***************************************************************************)
(* Vocabulary of the properties                                            *)
(***************************************************************************)
FetchDone == pc = "doneFetch"
Pre == callIn.ts
In == callIn.in
CallNow == Time(synced, ms)
PredList == In.b2.predictions

LevelFailed(a) == a.code # 200
LevelWellFormed(a) ==
    a.code = 200 /\ ~a.err /\ Len(a.data) > 0 /\ a.data[Len(a.data)] # Missing
LevelMalformed(a) ==
    a.code = 200 /\ (a.err \/ Len(a.data) = 0 \/ a.data[Len(a.data)] = Missing)
PredsOk(in) == in.b1.code = 200 /\ in.b2.code = 200
PredsFailed(in) == ~PredsOk(in)

\* the timestamp text of p is a full "YYYY-MM-DD HH:MM", and the UTC time
\* it names
WellFormedTime(p) ==
    p.t.day # Missing /\ p.t.hour # Missing /\ p.t.min # Missing
EntryUtc(p) == p.t.day[1] * 86400 + p.t.hour[1] * 3600 + p.t.min[1] * 60
Qualifies(p, now) == WellFormedTime(p) /\ EntryUtc(p) > now

LevelOf(ts) == << ts.currentFt, ts.deltaMSL >>
NextEventOf(ts) == << ts.nextEventType, ts.nextEventFt, ts.nextEventTime >>
\* the next-event fields were written from entry p of the response (the
\* entries and the earlier states all differ in their level)
StoredFrom(p) ==
    /\ NextEventOf(tideState) # NextEventOf(Pre)
    /\ tideState.nextEventFt = toFloat(p.v)

(***************************************************************************)
(* C1: in one fetchTide() cycle the two groups fail independently.  If the *)
(* current-level request fails and the prediction requests succeed with an *)
(* entry later than now, currentFt and deltaMSL keep their values and the  *)
(* next-event fields are written from the response; if the current-level   *)
(* request succeeds and a prediction request fails, currentFt and deltaMSL *)
(* are the fetched level and the next-event fields keep their values.      *)
(***************************************************************************)
C1_GroupsFailIndependently ==
    FetchDone =>
        /\ (/\ LevelFailed(In.a)
            /\ PredsOk(In)
            /\ \E i \in 1 .. Len(PredList) : Qualifies(PredList[i], CallNow))
           => /\ LevelOf(tideState) = LevelOf(Pre)
              /\ \E i \in 1 .. Len(PredList) : StoredFrom(PredList[i])
        /\ (LevelWellFormed(In.a) /\ PredsFailed(In))
           => /\ tideState.currentFt = In.a.data[Len(In.a.data)][1]
              /\ tideState.deltaMSL = tideState.currentFt - NOAA_MSL_FT
              /\ NextEventOf(tideState) = NextEventOf(Pre)

C1_Witness ==
    /\ FetchDone
    /\ LevelFailed(In.a)
    /\ PredsOk(In)
    /\ \E i \in 1 .. Len(PredList) : Qualifies(PredList[i], CallNow)
    /\ Pre.valid
    /\ Pre.currentFt = 1200
    /\ tideState.currentFt = 1200
    /\ Pre.nextEventFt = 90
    /\ tideState.nextEventFt # 90

(***************************************************************************)
(* C2: for every prediction list, in every order of its entries, the       *)
(* search stores the entry with the earliest timestamp among those         *)
(* strictly later than now (here with the clock set by NTP).               *)
(***************************************************************************)
C2_EarliestQualifying ==
    (FetchDone /\ synced /\ PredsOk(In)) =>
        \A i \in 1 .. Len(PredList) :
            (/\ Qualifies(PredList[i], CallNow)
             /\ \A j \in 1 .. Len(PredList) :
                   Qualifies(PredList[j], CallNow)
                       => EntryUtc(PredList[i]) <= EntryUtc(PredList[j]))
            => /\ tideState.nextEventFt = toFloat(PredList[i].v)
               /\ tideState.nextEventTime =
                      << PredList[i].t.hour[1], PredList[i].t.min[1] >>

(***************************************************************************)
(* C3: tideToDAC(0) = 128, tideToDAC(+TIDE_SCALE_FT) = 255,                *)
(* tideToDAC(-TIDE_SCALE_FT) = 0, and outside the range the result is the  *)
(* code of the nearest boundary: 255 above, 0 below.                       *)
(***************************************************************************)
C3_FixedPoints ==
    pc = "doneDAC" =>
        /\ (callIn = 0 => callOut = 128)
        /\ (callIn >= TIDE_SCALE_FT => callOut = 255)
        /\ (callIn <= -TIDE_SCALE_FT => callOut = 0)

(***************************************************************************)
(* C6: a current-level response with status 200 that is malformed (no      *)
(* document, an empty data array, or a last sample whose "v" is missing or *)
(* no number) leaves currentFt, deltaMSL and valid unchanged.              *)
(***************************************************************************)
C6_MalformedLevelKept ==
    (FetchDone /\ LevelMalformed(In.a)) =>
        /\ LevelOf(tideState) = LevelOf(Pre)
        /\ tideState.valid = Pre.valid

(***************************************************************************)
(* C7: if the prediction list is empty, or every entry's timestamp is      *)
(* equal to or earlier than now, fetchTide() leaves nextEventType,         *)
(* nextEventFt and nextEventTime as they were.                             *)
(***************************************************************************)
C7_NoQualifyingNoUpdate ==
    (/\ FetchDone
     /\ PredsOk(In)
     /\ \A i \in 1 .. Len(PredList) :
           WellFormedTime(PredList[i]) /\ EntryUtc(PredList[i]) <= CallNow)
    => NextEventOf(tideState) = NextEventOf(Pre)

(***************************************************************************)
(* C8: when the selected entry has a type code other than "H" and "L",     *)
(* the stored nextEventType is neither "High" nor "Low".                   *)
(***************************************************************************)
C8_UnknownTypeDistinct ==
    (FetchDone /\ PredsOk(In)) =>
        \A i \in 1 .. Len(PredList) :
            (StoredFrom(PredList[i]) /\ PredList[i].type \notin {"H", "L"})
            => tideState.nextEventType \notin {"High", "Low"}

(***************************************************************************)
(* C8 as amended: the stored nextEventType is "High" when the selected     *)
(* entry's type code is "H" and "Low" for every other type code, the       *)
(* unexpected ones included.                                               *)
(***************************************************************************)
C8_NonHighIsLow ==
    (FetchDone /\ PredsOk(In)) =>
        \A i \in 1 .. Len(PredList) :
            StoredFrom(PredList[i])
            => tideState.nextEventType =
                   (IF PredList[i].type = "H" THEN "High" ELSE "Low")

C8_Witness ==
    /\ FetchDone
    /\ PredsOk(In)
    /\ \E i \in 1 .. Len(PredList) :
          StoredFrom(PredList[i]) /\ PredList[i].type = "X"
    /\ tideState.nextEventType = "Low"

(***************************************************************************)
(* C9: an entry whose timestamp text cannot be parsed, fully or partly, is *)
(* never selected, and the entries after it are still evaluated: the       *)
(* result is the result on the list with the malformed entries removed     *)
(* (here with the clock set by NTP).                                       *)
(***************************************************************************)
C9_MalformedSkipped ==
    (FetchDone /\ synced /\ PredsOk(In)) =>
        tideState =
            fetchTide(Pre,
                      [In EXCEPT !.b2.predictions =
                                     SelectSeq(PredList, WellFormedTime)],
                      CallNow)

(***************************************************************************)
(* Properties of a whole run: setup(), then loop() dispatched again and    *)
(* again.  Every handler takes time, so a step that is a handler changes   *)
(* ms, and ev' then tells what that handler did.                           *)
(***************************************************************************)
HandlerRan == ms' # ms
WeatherFetchFailed(r) == r.code # 200 \/ r.err

(***************************************************************************)
(* C4: stale-but-valid.  For tideState and for weatherState, valid is      *)
(* false at boot, and once it is true it is true in every later state,     *)
(* whatever fetches succeed or fail afterwards.                            *)
(***************************************************************************)
C4_StaleButValid ==
    /\ ~tideState.valid
    /\ ~weatherState.valid
    /\ [][/\ tideState.valid => tideState'.valid
          /\ weatherState.valid => weatherState'.valid]_vars

C4_Witness ==
    /\ ev.op = "loop"
    /\ ev.tideFired
    /\ ev.tideIn.a.code # 200
    /\ tideState.valid
    /\ weatherState.valid

(***************************************************************************)
(* C5: when fetchWeather() fails (a response other than 200, or a document *)
(* that cannot be parsed), weatherState.fetchedAt is not changed.          *)
(***************************************************************************)
C5_FailedWeatherKeepsStamp ==
    [][(HandlerRan /\ ev'.wxFired /\ WeatherFetchFailed(ev'.wxIn))
       => weatherState'.fetchedAt = weatherState.fetchedAt]_vars

(***************************************************************************)
(* C5 as amended: every fetchWeather() call, failed ones included, sets    *)
(* weatherState.fetchedAt to the local time at which the call ends; a      *)
(* failed call leaves the other weather fields unchanged.                  *)
(***************************************************************************)
C5_WeatherStampedEveryCycle ==
    [][(HandlerRan /\ ev'.wxFired)
       => /\ weatherState'.fetchedAt = nowString(Time(synced', ev'.needleAt))
          /\ WeatherFetchFailed(ev'.wxIn)
             => weatherState' =
                    [weatherState EXCEPT !.fetchedAt = weatherState'.fetchedAt]]_vars

C5_Witness ==
    /\ ev.op = "loop"
    /\ ev.wxFired
    /\ WeatherFetchFailed(ev.wxIn)
    /\ weatherState.valid
    /\ weatherState.fetchedAt = nowString(Time(synced, ev.needleAt))

(***************************************************************************)
(* C10: in every loop() dispatch each of the three timers fires exactly    *)
(* when now - lastFire >= interval; a timer that fires has its lastFire    *)
(* set to now and keeps that value whether its fetch succeeded or failed;  *)
(* a timer that does not fire keeps its lastFire.                          *)
(***************************************************************************)
C10_TimersFireAndRearm ==
    [][(HandlerRan /\ ev'.op = "loop")
       => /\ ev'.tideFired
                <=> (ev'.now - lastTideFetch >= TIDE_INTERVAL_MS)
          /\ ev'.wxFired
                <=> (ev'.now - lastWeatherFetch >= WEATHER_INTERVAL_MS)
          /\ ev'.needleFired
                <=> (ev'.now - lastNeedleUpdate >= DISPLAY_INTERVAL_MS)
          /\ lastTideFetch' =
                (IF ev'.tideFired THEN ev'.now ELSE lastTideFetch)
          /\ lastWeatherFetch' =
                (IF ev'.wxFired THEN ev'.now ELSE lastWeatherFetch)
          /\ lastNeedleUpdate' =
                (IF ev'.needleFired THEN ev'.now ELSE lastNeedleUpdate)]_vars

C10_Witness ==
    /\ ev.op = "loop"
    /\ ev.tideFired
    /\ ev.tideIn.a.code # 200
    /\ ev.tideIn.b1.code # 200
    /\ lastTideFetch = ev.now
    /\ ms > ev.now
    /\ ~ev.wxFired
    /\ lastWeatherFetch < ev.now

(***************************************************************************)
(* C12: in every reachable state with tideState.valid,                     *)
(* deltaMSL = currentFt - NOAA_MSL_FT; the two fields are only ever        *)
(* written together (while valid is false both still hold their default    *)
(* 0); and when a cycle's current-level request returned a sample, valid   *)
(* is true afterwards and the two fields are that sample and its offset.   *)
(***************************************************************************)
C12_DeltaIsLevelMinusMSL ==
    /\ IF tideState.valid
           THEN tideState.deltaMSL = tideState.currentFt - NOAA_MSL_FT
           ELSE tideState.currentFt = 0 /\ tideState.deltaMSL = 0
    /\ (ev.tideFired /\ LevelWellFormed(ev.tideIn.a))
       => /\ tideState.valid
          /\ tideState.currentFt = ev.tideIn.a.data[Len(ev.tideIn.a.data)][1]
          /\ tideState.deltaMSL = tideState.currentFt - NOAA_MSL_FT

C12_Witness ==
    /\ ev.op = "setup"
    /\ ev.tideFired
    /\ LevelWellFormed(ev.tideIn.a)
    /\ tideState.valid
    /\ tideState.currentFt = 1635
    /\ tideState.deltaMSL = 800

\* a 200 response whose payload is malformed; the five weather fields
WeatherMalformed(r) ==
    /\ r.code = 200
    /\ \/ r.err
       \/ Missing \in {r.cur.temperature_2m, r.cur.windspeed_10m,
                       r.cur.winddirection_10m, r.cur.weathercode}
WeatherFields(ws) ==
    << ws.tempF, ws.windMph, ws.windDirDeg, ws.condition, ws.valid >>

(***************************************************************************)
(* C13: when fetchWeather() fails, by a transport failure or a malformed   *)
(* payload (a document that cannot be parsed, or a parsed document in      *)
(* which the current object or one of its fields is missing), tempF,       *)
(* windMph, windDirDeg, condition and valid keep their values.             *)
(***************************************************************************)
C13_FailedWeatherKeepsFields ==
    [][(/\ HandlerRan
        /\ ev'.wxFired
        /\ (ev'.wxIn.code # 200 \/ WeatherMalformed(ev'.wxIn)))
       => WeatherFields(weatherState') = WeatherFields(weatherState)]_vars

(***************************************************************************)
(* C14: windDirection maps 0 to "N", 44 to "N", 46 to "NE" and 350 to "N", *)
(* and for every deg in [0, 360] the computed index is within 0 .. 7.      *)
(***************************************************************************)
C14_CompassPoints ==
    pc = "doneWind" =>
        /\ callOut.idx \in 0 .. 7
        /\ callIn = 0 => callOut.text = "N"
        /\ callIn = 44 => callOut.text = "N"
        /\ callIn = 46 => callOut.text = "NE"
        /\ callIn = 350 => callOut.text = "N"

(***************************************************************************)
(* C14 as amended: windDirection maps 0 to "N", 44 to "NE", 46 to "NE"     *)
(* and 350 to "N"; every sector is 45 degrees wide and centred on its      *)
(* compass point (sector k holds 45 k - 22.5 <= deg < 45 k + 22.5, and     *)
(* sector 8 is sector 0 again); the index is within 0 .. 7.                *)
(***************************************************************************)
C14_CentredSectors ==
    pc = "doneWind" =>
        /\ callOut.idx \in 0 .. 7
        /\ callOut.text = dirs[callOut.idx + 1]
        /\ \E k \in 0 .. 8 :
              /\ 90 * k - 45 <= 2 * callIn
              /\ 2 * callIn < 90 * k + 45
              /\ callOut.idx = k % 8
        /\ callIn = 0 => callOut.text = "N"
        /\ callIn = 44 => callOut.text = "NE"
        /\ callIn = 46 => callOut.text = "NE"
        /\ callIn = 350 => callOut.text = "N"

C14_Witness ==
    /\ pc = "doneWind"
    /\ callIn = 44
    /\ callOut.text = "NE"

(***************************************************************************)
(* Vocabulary of the tideToDAC properties                                  *)
(***************************************************************************)
Abs(x) == IF x < 0 THEN -x ELSE x
\* clamp(deltaMSL, -TIDE_SCALE_FT, +TIDE_SCALE_FT) of the call's argument;
\* n * 127 is then Clamped * 127 / TIDE_SCALE_FT
Clamped ==
    IF callIn < -TIDE_SCALE_FT THEN -TIDE_SCALE_FT
    ELSE IF callIn > TIDE_SCALE_FT THEN TIDE_SCALE_FT ELSE callIn
Clamp255(x) == IF x < 0 THEN 0 ELSE IF x > 255 THEN 255 ELSE x

(***************************************************************************)
(* C17: tideToDAC is monotonic non-decreasing: for all x <= y, inside or   *)
(* outside the input range, tideToDAC(x) <= tideToDAC(y); and every result *)
(* is in [0, 255].                                                         *)
(***************************************************************************)
C17_Monotonic ==
    pc = "doneDAC" =>
        /\ callOut \in 0 .. 255
        /\ \A y \in callIn .. MaxDelta : callOut <= tideToDAC(y)

C17_Witness ==
    /\ pc = "doneDAC"
    /\ callIn = -MaxDelta
    /\ callOut = 1
    /\ tideToDAC(TIDE_SCALE_FT - 1) = 254
    /\ tideToDAC(MaxDelta) = 255

(***************************************************************************)
(* C18: on the grid of hundredths, tideToDAC(deltaMSL) =                   *)
(* clamp(128 + round(n * 127), 0, 255) with n = clamp(deltaMSL,            *)
(* -TIDE_SCALE_FT, +TIDE_SCALE_FT) / TIDE_SCALE_FT and round rounding to   *)
(* the nearest integer (a tie may go either way).                          *)
(***************************************************************************)
C18_RoundToNearest ==
    pc = "doneDAC" =>
        \E r \in -128 .. 128 :
            /\ 2 * Abs(Clamped * 127 - r * TIDE_SCALE_FT) <= TIDE_SCALE_FT
            /\ callOut = Clamp255(128 + r)

(***************************************************************************)
(* C18 as amended: on the grid of hundredths, tideToDAC(deltaMSL) =        *)
(* clamp(128 + trunc(n * 127), 0, 255) with n as before and trunc dropping *)
(* the fraction (rounding toward zero): the offset k has the sign of n and *)
(* |k| <= |n * 127| < |k| + 1.                                             *)
(***************************************************************************)
C18_TruncTowardZero ==
    pc = "doneDAC" =>
        \E k \in -127 .. 127 :
            /\ k * Clamped >= 0
            /\ Abs(k) * TIDE_SCALE_FT <= Abs(Clamped * 127)
            /\ Abs(Clamped * 127) < (Abs(k) + 1) * TIDE_SCALE_FT
            /\ callOut = Clamp255(128 + k)

C18_Witness ==
    /\ pc = "doneDAC"
    /\ callIn = 5
    /\ callOut = 128

\* w starts at 0, rises without decreasing to its first 255, then falls
\* without increasing, and ends with 128
SweepShape(w) ==
    /\ Len(w) > 0
    /\ w[1] = 0
    /\ w[Len(w)] = 128
    /\ \E m \in 1 .. Len(w) :
          /\ w[m] = 255
          /\ \A i \in 1 .. m - 1 : w[i] <= w[i + 1] /\ w[i] < 255
          /\ \A i \in m .. Len(w) - 1 : w[i] >= w[i + 1]

(***************************************************************************)
(* C16: bootSweep() runs exactly once, before the first fetch: nothing is  *)
(* swept or fetched before setup(), and the sweep recorded by setup() is   *)
(* never written again.  The values it writes start at 0, rise without     *)
(* ever decreasing until 255 is written, then fall without ever increasing *)
(* and end with 128, whatever tideState holds.                             *)
(***************************************************************************)
C16_BootSweep ==
    /\ [](pc = "boot" => (sweep = << >> /\ tideState = TideState0
                          /\ weatherState = WeatherState0))
    /\ [](pc = "loop" => SweepShape(sweep))
    /\ [][sweep # << >> => sweep' = sweep]_vars

C16_Witness ==
    /\ pc = "loop"
    /\ ev.op = "setup"
    /\ tideState.valid
    /\ tideState.deltaMSL = 800
    /\ Len(sweep) = 131
    /\ sweep[87] = 255
    /\ sweep[88] = 255
    /\ sweep[130] = 129

(***************************************************************************)
(* C20: after startup, as long as no current-level fetch has succeeded     *)
(* (tideState.valid is false) the analog output stays at 128; once valid   *)
(* is true, every periodic needle write equals tideToDAC of the deltaMSL   *)
(* stored at that moment.                                                  *)
(***************************************************************************)
C20_NeedleFollowsValidLevel ==
    /\ []((pc # "boot" /\ ~tideState.valid) => dac = 128)
    /\ [][(/\ HandlerRan
           /\ ev'.op = "loop"
           /\ ev'.needleFired
           /\ tideState'.valid)
          => dac' = tideToDAC(tideState'.deltaMSL)]_vars

C20_Witness ==
    /\ ev.op = "loop"
    /\ ev.needleFired
    /\ ev.tideFired
    /\ LevelWellFormed(ev.tideIn.a)
    /\ tideState.valid
    /\ tideState.deltaMSL = 800
    /\ dac = 255

(***************************************************************************)
(* C11: for each of the three actions, the next firing happens no earlier  *)
(* than its interval after the millis() time at which the previous firing  *)
(* of that action actually started, the startup firing in setup() and the  *)
(* firings that start late behind an earlier action of the same dispatch   *)
(* included.                                                               *)
(***************************************************************************)
C11_IntervalFromActualStart ==
    [][(HandlerRan /\ ev'.op = "loop")
       => /\ ev'.tideFired
             => ev'.tideAt - fired.tide.at >= TIDE_INTERVAL_MS
          /\ ev'.wxFired
             => ev'.wxAt - fired.wx.at >= WEATHER_INTERVAL_MS
          /\ ev'.needleFired
             => ev'.needleAt - fired.needle.at >= DISPLAY_INTERVAL_MS]_vars

(***************************************************************************)
(* C11 as amended: for each of the three actions, a firing in loop() is    *)
(* dispatched no earlier than its interval after the millis() reading of   *)
(* the dispatch that made the action's previous loop() firing, and the     *)
(* first loop() firing no earlier than its interval after boot (millis()   *)
(* 0): the startup firing in setup() does not arm the timers, and a late   *)
(* start is timed from the reading of its dispatch.                        *)
(***************************************************************************)
C11_IntervalFromDispatchReading ==
    [][(HandlerRan /\ ev'.op = "loop")
       => /\ ev'.tideFired
             => ev'.now - fired.tide.now >= TIDE_INTERVAL_MS
          /\ ev'.wxFired
             => ev'.now - fired.wx.now >= WEATHER_INTERVAL_MS
          /\ ev'.needleFired
             => ev'.now - fired.needle.now >= DISPLAY_INTERVAL_MS]_vars

C11_Witness ==
    /\ ev.op = "loop"
    /\ ev.tideFired
    /\ ev.needleFired
    /\ ev.now >= 2 * TIDE_INTERVAL_MS
    /\ fired.tide.now = ev.now
    /\ fired.needle.at > ev.now

(***************************************************************************)
(* C19: the scheduler never stops.  In a run in which every fetch returns  *)
(* and the clock keeps advancing, each of the three actions fires in       *)
(* loop() infinitely often, however many fetches fail.                     *)
(***************************************************************************)
C19_EachActionInfinitelyOften ==
    /\ []<>(ev.op = "loop" /\ ev.tideFired)
    /\ []<>(ev.op = "loop" /\ ev.wxFired)
    /\ []<>(ev.op = "loop" /\ ev.needleFired)

C19_Witness ==
    /\ ev.op = "loop"
    /\ ev.wxFired
    /\ WeatherFetchFailed(ev.wxIn)
    /\ ~tideState.valid
    /\ ~weatherState.valid
    /\ ms = LiveOrigin
    /\ lastTideFetch > 0
    /\ lastWeatherFetch > lastTideFetch

\* the level group was written as a whole; the next-event group is the
\* default or was written from one entry
LevelGroupWhole(ts) ==
    IF ts.valid THEN ts.deltaMSL = ts.currentFt - NOAA_MSL_FT
                ELSE ts.currentFt = 0 /\ ts.deltaMSL = 0
EventGroupWhole(ts) ==
    \/ NextEventOf(ts) = NextEventOf(TideState0)
    \/ \E p \in PredEntries :
          NextEventOf(ts) = << EventType(p.type), toFloat(p.v),
                               << Sscanf(p.t).tm_hour, Sscanf(p.t).tm_min >> >>

(***************************************************************************)
(* C15: tide refresh, weather refresh, needle refresh and the status-page  *)
(* handler never run interleaved.  An action starts only when the one      *)
(* before it has made all its assignments; handleRoot() and the needle     *)
(* refresh read the two structs only as complete actions left them; and no *)
(* page shows a partially written group (a level without its offset, or a  *)
(* next event put together from two entries).                              *)
(***************************************************************************)
C15_ReadersSeeSettledState ==
    /\ [](pc \in {"loop", "tideTimer", "wxTimer", "needleTimer"}
          => local.writes = << >>)
    /\ [](pc \in {"loop", "needleTimer"}
          => (tideState = settled.tide /\ weatherState = settled.weather))
    /\ [](page # NoPage
          => (LevelGroupWhole(page.tide) /\ EventGroupWhole(page.tide)))
    /\ [][(page' # page /\ page' # NoPage)
          => page' = handleRoot(settled.tide, settled.weather)]_vars

C15_Witness ==
    /\ pc = "tideRun"
    /\ page # NoPage
    /\ page.tide.valid
    /\ tideState.currentFt # page.tide.currentFt
    /\ tideState.deltaMSL = page.tide.deltaMSL
    /\ ~LevelGroupWhole(tideState)

(***************************************************************************)
(* C21: fetchTide() makes the prediction request twice (a first GET whose  *)
(* body is discarded, then a re-fetch).  The next-event fields are written *)
(* only when both returned 200: when the first fails, or the first         *)
(* succeeds and the second fails, they keep their values.  When they are   *)
(* written, it is from an entry of the re-fetch's body, whatever the first *)
(* body held, and that entry is later than the clock as read after the     *)
(* second response arrived.                                                *)
(***************************************************************************)
C21_BothPredictionGetsNeeded ==
    FetchDone =>
        /\ PredsFailed(In) => NextEventOf(tideState) = NextEventOf(Pre)
        /\ NextEventOf(tideState) # NextEventOf(Pre)
           => \E i \in 1 .. Len(PredList) :
                 /\ StoredFrom(PredList[i])
                 /\ tideState.nextEventType = EventType(PredList[i].type)
                 /\ mktime(Sscanf(PredList[i].t)) > CallNow

C21_Witness ==
    /\ FetchDone
    /\ synced
    /\ In.b1 = PredOk(<< PredPlus5 >>)
    /\ In.b2 = PredOk(<< PredSkewEdge, PredPlus2 >>)
    /\ Pre.nextEventFt = 90
    /\ tideState.nextEventFt = 140
    /\ tideState.nextEventType = "Low"

====
